---- MODULE Spec2Model ----
(***************************************************************************)
(* Soft-lock withdrawal gating of the savings agent                        *)
(* (backend/savingsAgent.js, backend/server.js, the SQLite schema and the  *)
(* Increase ledger client).                                                *)
(*                                                                         *)
(* Time is wall-clock milliseconds (JavaScript Date).  A row's created_at  *)
(* is the text SQLite writes for CURRENT_TIMESTAMP: UTC, whole seconds; it *)
(* is kept here as the count of UTC seconds.  new Date(text) reads such a  *)
(* text ("YYYY-MM-DD HH:MM:SS", no zone designator) as LOCAL time, so the  *)
(* instant it yields is shifted by the server's zone offset tz.            *)
(*                                                                         *)
(* The rewards (rewardsManager.js, challengesManager.js) keep a streak and  *)
(* a wallet per user in user_settings and a row per reward in              *)
(* rewards_history; amounts there are whole dollars.                       *)
(*                                                                         *)
(* The detectors (detectWindfall, analyzeWeeklySweep) are functions of a   *)
(* transaction list and the time of the call.  Amounts are decimal dollars *)
(* with two places, kept as signed cents; the code holds them as doubles,  *)
(* and every comparison that decides a result is evaluated on the doubles, *)
(* digit for digit.  The amounts a result reports are kept as the exact    *)
(* decimal values that the reported doubles round.  Detector time is in    *)
(* hours.                                                                  *)
(***************************************************************************)
EXTENDS Integers, Sequences, FiniteSets, TLC

VARIABLES now, tz, increase_accounts, withdrawal_requests, handlers, response,
          transactions, callHour, result,
          user_settings, rewards_history, user_challenge_progress, claims, reply

\* the state of the soft lock, a call of one of the detectors, and the tables
\* of the rewards with the reward requests in flight
softLockVars == <<now, tz, increase_accounts, withdrawal_requests, handlers, response>>
detectorVars == <<transactions, callHour, result>>
rewardVars == <<user_settings, rewards_history, user_challenge_progress, claims, reply>>

vars == <<now, tz, increase_accounts, withdrawal_requests, handlers, response,
          transactions, callHour, result,
          user_settings, rewards_history, user_challenge_progress, claims, reply>>

----------------------------------------------------------------------------
(* Bounds *)

MaxLateHours == 1
MaxRequests == 2

----------------------------------------------------------------------------
(* Program constants *)

SecondMs == 1000
MinuteMs == 1000 * 60
HourMs == 1000 * 60 * 60
DayMs == 24 * 60 * 60 * 1000
CoolingHours == 24

----------------------------------------------------------------------------
(* Input domains *)

\* the requests the server is handling at one time
Handlers == {"h1", "h2"}

\* the accounts of the database file, and an id that no row carries
VaultId == "vault_1"
MainId == "main_1"
GhostId == "ghost"
\* the vaultId of a call or of req.body
BodyIds == {VaultId, MainId, GhostId}
\* req.body.amount, dollars: 0 is a missing (falsy) field
UnitAmount == 25
Amounts == {0, UnitAmount}
InitialVaultBalance == 50
VaultGoal == 100

\* zone offsets of the server process, east of UTC positive
ZoneOffsets == {0 - HourMs, 0, HourMs}

\* the instants at which the model lets something happen
\* the first day's instants, then whole hours from 24h on
HalfSecondMs == 500
FirstDay == {0, HalfSecondMs, DayMs - HourMs, DayMs - MinuteMs}
Instants == FirstDay \cup {DayMs + k * HourMs : k \in 0..MaxLateHours}

----------------------------------------------------------------------------
(* Conversions *)

\* SQLite CURRENT_TIMESTAMP: UTC text with second resolution
CURRENT_TIMESTAMP(t) == t \div SecondMs

\* new Date(created_at): the text is read as local time
NewDate(text) == text * SecondMs - tz

\* Math.ceil(n / d) for d > 0
CeilDiv(n, d) == 0 - ((0 - n) \div d)

----------------------------------------------------------------------------
(* Values *)

NoVault == [balance |-> -1, goalAmount |-> -1]

\* a return value / response body; status is the HTTP status (0: direct call)
BlankReply ==
  [status |-> 0, allowed |-> FALSE, success |-> FALSE, reason |-> "",
   error |-> "", hoursRemaining |-> -1, withdrawalRequestId |-> 0,
   availableAt |-> -1, vault |-> NoVault,
   hasActiveRequest |-> FALSE, canWithdraw |-> FALSE]

\* the locals of a request handler (req.body, lockCheck's outcome, result)
IdleHandler ==
  [pc |-> "idle", op |-> "", vaultId |-> "", amount |-> 0, toAccountId |-> "",
   withdrawalRequestId |-> 0]

\* what was last sent or returned: by which operation, for which vaultId
Sent(op, vaultId, body) == [op |-> op, vaultId |-> vaultId, body |-> body]

----------------------------------------------------------------------------
(* Queries *)

\* SELECT * FROM increase_accounts WHERE increase_account_id = ? AND account_type = 'vault'
VaultRows(vaultId) ==
  {a \in DOMAIN increase_accounts : a = vaultId /\ increase_accounts[a].account_type = "vault"}

\* SELECT * FROM increase_accounts WHERE increase_account_id = ?
AccountRows(accountId) == {a \in DOMAIN increase_accounts : a = accountId}

PendingOf(vaultId) ==
  {i \in 1..Len(withdrawal_requests) :
     /\ withdrawal_requests[i].vault_id = vaultId
     /\ withdrawal_requests[i].status = "pending"}

\* ... WHERE vault_id = ? AND status = 'pending' ORDER BY created_at DESC LIMIT 1
\* (rows with equal created_at come back in an order SQL leaves open)
PendingLookup(vaultId) ==
  {i \in PendingOf(vaultId) :
     \A j \in PendingOf(vaultId) :
        withdrawal_requests[j].created_at <= withdrawal_requests[i].created_at}

\* the decision of checkSoftLock once existingRequest is row i
LockDecision(i) ==
  LET existingRequest == withdrawal_requests[i]
      requestTime == NewDate(existingRequest.created_at)
      msSinceRequest == now - requestTime
  IN  IF msSinceRequest >= CoolingHours * HourMs
      THEN [BlankReply EXCEPT !.allowed = TRUE,
                              !.withdrawalRequestId = existingRequest.id]
      ELSE [BlankReply EXCEPT !.reason = "cooling_period",
                              !.hoursRemaining =
                                 CeilDiv(CoolingHours * HourMs - msSinceRequest, HourMs)]

\* the values checkSoftLock(vaultId, requestedAmount) can return in this state
checkSoftLock(vaultId, requestedAmount) ==
  IF VaultRows(vaultId) = {}
  THEN {[BlankReply EXCEPT !.error = "Vault not found"]}
  ELSE IF PendingLookup(vaultId) # {}
       THEN {LockDecision(i) : i \in PendingLookup(vaultId)}
       ELSE {[BlankReply EXCEPT
                !.reason = "new_request",
                !.vault = [balance |-> increase_accounts[vaultId].balance,
                           goalAmount |-> increase_accounts[vaultId].goal_amount]]}

\* no detector has been called
NoResult == [fn |-> "", arg |-> <<>>, value |-> <<>>]

\* the locals of a claimChallengeReward call
IdleClaim == [pc |-> "idle", userId |-> "", rewardAmount |-> 0]

\* what a rewards function last returned
Returned(op, userId, body) == [op |-> op, userId |-> userId, body |-> body]
NoReward == [success |-> FALSE, awarded |-> FALSE, amount |-> 0, newStreak |-> 0]

\* empty rewards tables, no reward request in flight
RewardsIdle ==
  /\ user_settings = <<>>
  /\ rewards_history = <<>>
  /\ user_challenge_progress = <<>>
  /\ claims = [h \in Handlers |-> IdleClaim]
  /\ reply = Returned("", "", NoReward)

----------------------------------------------------------------------------
Init ==
  /\ now = 0
  /\ tz \in ZoneOffsets
  /\ increase_accounts =
       (VaultId :> [account_type |-> "vault", balance |-> InitialVaultBalance,
                    goal_amount |-> VaultGoal]) @@
       (MainId :> [account_type |-> "main", balance |-> 0, goal_amount |-> 0])
  /\ withdrawal_requests = <<>>
  /\ handlers = [h \in Handlers |-> IdleHandler]
  /\ response = Sent("", "", BlankReply)
  /\ transactions = <<>>
  /\ callHour = 0
  /\ result = NoResult
  /\ RewardsIdle

\* wall-clock time passes
Advance ==
  /\ \E t \in Instants : t > now /\ now' = t
  /\ UNCHANGED <<tz, increase_accounts, withdrawal_requests, handlers, response>>
  /\ UNCHANGED detectorVars
  /\ UNCHANGED rewardVars

\* checkSoftLock as it would be if the new-request decision also wrote the row
CallCheckSoftLock_Creating(vaultId, amount) ==
  /\ \E lockCheck \in checkSoftLock(vaultId, amount) :
       /\ response' = Sent("check", vaultId, lockCheck)
       /\ withdrawal_requests' =
            IF lockCheck.reason = "new_request" /\ Len(withdrawal_requests) < MaxRequests
            THEN Append(withdrawal_requests,
                        [id |-> Len(withdrawal_requests) + 1, vault_id |-> vaultId,
                         amount |-> amount, status |-> "pending",
                         created_at |-> CURRENT_TIMESTAMP(now)])
            ELSE withdrawal_requests
  /\ UNCHANGED <<now, tz, increase_accounts, handlers>>
  /\ UNCHANGED detectorVars
  /\ UNCHANGED rewardVars

\* a direct call of the exported checkSoftLock
CallCheckSoftLock(vaultId, amount) ==
  /\ \E lockCheck \in checkSoftLock(vaultId, amount) :
       response' = Sent("check", vaultId, lockCheck)
  /\ UNCHANGED <<now, tz, increase_accounts, withdrawal_requests, handlers>>
  /\ UNCHANGED detectorVars
  /\ UNCHANGED rewardVars

\* POST /api/vault/withdraw/request up to its call of createWithdrawalRequest
WithdrawRequest(h, vaultId, amount) ==
  /\ handlers[h].pc = "idle"
  /\ IF vaultId = "" \/ amount = 0
     THEN /\ response' = Sent("request", vaultId,
                 [BlankReply EXCEPT !.status = 400,
                                    !.error = "vaultId and amount are required"])
          /\ UNCHANGED handlers
     ELSE \E lockCheck \in checkSoftLock(vaultId, amount) :
            IF lockCheck.allowed \/ lockCheck.reason = "cooling_period"
            THEN /\ response' = Sent("request", vaultId, [lockCheck EXCEPT !.status = 200])
                 /\ UNCHANGED handlers
            ELSE IF lockCheck.reason = "new_request"
            THEN /\ handlers' = [handlers EXCEPT ![h] =
                        [IdleHandler EXCEPT !.pc = "create_insert", !.op = "request",
                                            !.vaultId = vaultId, !.amount = amount]]
                 /\ UNCHANGED response
            ELSE /\ response' = Sent("request", vaultId, [lockCheck EXCEPT !.status = 400])
                 /\ UNCHANGED handlers
  /\ UNCHANGED <<now, tz, increase_accounts, withdrawal_requests>>
  /\ UNCHANGED detectorVars
  /\ UNCHANGED rewardVars

\* the row INSERT INTO withdrawal_requests adds (id AUTOINCREMENT, created_at default)
NewRequestRow(vaultId, amount) ==
  [id |-> Len(withdrawal_requests) + 1, vault_id |-> vaultId, amount |-> amount,
   status |-> "pending", created_at |-> CURRENT_TIMESTAMP(now)]

\* the account lookup of createWithdrawalRequest
CreateLookup(vaultId) == AccountRows(vaultId)

\* the body of createWithdrawalRequest, run by handler h for operation op:
\* account lookup, INSERT, success value with availableAt from Date.now()
CreateBody(op, vaultId, amount) ==
  /\ IF CreateLookup(vaultId) = {}
     THEN /\ response' = Sent(op, vaultId,
                 [BlankReply EXCEPT !.status = IF op = "request" THEN 200 ELSE 0,
                                    !.error = "Vault not found"])
          /\ UNCHANGED withdrawal_requests
     ELSE /\ Len(withdrawal_requests) < MaxRequests
          /\ withdrawal_requests' =
               Append(withdrawal_requests, NewRequestRow(vaultId, amount))
          /\ response' = Sent(op, vaultId,
                 [BlankReply EXCEPT !.status = IF op = "request" THEN 200 ELSE 0,
                                    !.success = TRUE,
                                    !.availableAt = now + DayMs])
  /\ UNCHANGED <<now, tz, increase_accounts>>
  /\ UNCHANGED detectorVars
  /\ UNCHANGED rewardVars

\* a direct call of the exported createWithdrawalRequest
CallCreateWithdrawalRequest(vaultId, amount) ==
  /\ CreateBody("create", vaultId, amount)
  /\ UNCHANGED handlers

\* createWithdrawalRequest as called by POST /api/vault/withdraw/request
createWithdrawalRequest(h) ==
  /\ handlers[h].pc = "create_insert"
  /\ CreateBody(handlers[h].op, handlers[h].vaultId, handlers[h].amount)
  /\ handlers' = [handlers EXCEPT ![h] = IdleHandler]

\* req.body.toAccountId
ToAccountIds == {MainId}
\* req.body.withdrawalRequestId: 0 is a missing field
RequestIds == 0..MaxRequests

\* POST /api/vault/withdraw/execute up to its call of createAccountTransfer
WithdrawExecute(h, vaultId, toAccountId, amount, withdrawalRequestId) ==
  /\ handlers[h].pc = "idle"
  /\ IF vaultId = "" \/ toAccountId = "" \/ amount = 0
     THEN /\ response' = Sent("execute", vaultId,
                 [BlankReply EXCEPT !.status = 400,
                    !.error = "vaultId, toAccountId, and amount are required"])
          /\ UNCHANGED handlers
     ELSE \E lockCheck \in checkSoftLock(vaultId, amount) :
            IF ~lockCheck.allowed
            THEN /\ response' = Sent("execute", vaultId, [lockCheck EXCEPT !.status = 403])
                 /\ UNCHANGED handlers
            ELSE /\ handlers' = [handlers EXCEPT ![h] =
                        [IdleHandler EXCEPT !.pc = "exec_transfer", !.op = "execute",
                           !.vaultId = vaultId, !.amount = amount,
                           !.toAccountId = toAccountId,
                           !.withdrawalRequestId = withdrawalRequestId]]
                 /\ UNCHANGED response
  /\ UNCHANGED <<now, tz, increase_accounts, withdrawal_requests>>
  /\ UNCHANGED detectorVars
  /\ UNCHANGED rewardVars

\* UPDATE withdrawal_requests SET status = 'completed' WHERE id = ?
MarkCompleted(requests, requestId) ==
  [i \in 1..Len(requests) |->
     IF requests[i].id = requestId
     THEN [requests[i] EXCEPT !.status = "completed"]
     ELSE requests[i]]

\* the UPDATE issued whatever the transfer reported
ShouldMark_IgnoringResult(success, withdrawalRequestId) == withdrawalRequestId # 0

\* whether the execute handler issues the UPDATE
ShouldMark(success, withdrawalRequestId) == success /\ withdrawalRequestId # 0

\* whether the ledger can carry out the transfer
LedgerAccepts(from, to, amount) ==
  /\ from \in DOMAIN increase_accounts
  /\ to \in DOMAIN increase_accounts
  /\ from # to
  /\ increase_accounts[from].balance >= amount

\* POST /api/vault/withdraw/execute from its call of createAccountTransfer on:
\* the ledger accepts or refuses; on success the two balances are refreshed
\* from the ledger and the request named in the body is marked
createAccountTransfer(h, success) ==
  /\ handlers[h].pc = "exec_transfer"
  /\ LET from == handlers[h].vaultId
         to == handlers[h].toAccountId
         amount == handlers[h].amount
     IN  IF success
         THEN /\ LedgerAccepts(from, to, amount)
              /\ increase_accounts' =
                   [increase_accounts EXCEPT ![from].balance = @ - amount,
                                             ![to].balance = @ + amount]
         ELSE UNCHANGED increase_accounts
  /\ withdrawal_requests' =
       IF ShouldMark(success, handlers[h].withdrawalRequestId)
       THEN MarkCompleted(withdrawal_requests, handlers[h].withdrawalRequestId)
       ELSE withdrawal_requests
  /\ response' = Sent("execute", handlers[h].vaultId,
         [BlankReply EXCEPT !.status = 200, !.success = success])
  /\ handlers' = [handlers EXCEPT ![h] = IdleHandler]
  /\ UNCHANGED <<now, tz>>
  /\ UNCHANGED detectorVars
  /\ UNCHANGED rewardVars

\* Math.max(a, b)
Max(a, b) == IF a >= b THEN a ELSE b

\* the request object of the status response once request is row i
StatusOf(i) ==
  LET request == withdrawal_requests[i]
      requestTime == NewDate(request.created_at)
      msSinceRequest == now - requestTime
      hoursRemaining == CeilDiv(CoolingHours * HourMs - msSinceRequest, HourMs)
  IN  [BlankReply EXCEPT !.status = 200,
                         !.hasActiveRequest = TRUE,
                         !.withdrawalRequestId = request.id,
                         !.hoursRemaining = Max(0, hoursRemaining),
                         !.canWithdraw = (msSinceRequest >= CoolingHours * HourMs)]

\* GET /api/vault/withdraw/status/:vaultId
WithdrawStatus(vaultId) ==
  /\ IF PendingLookup(vaultId) = {}
     THEN response' = Sent("status", vaultId, [BlankReply EXCEPT !.status = 200])
     ELSE \E i \in PendingLookup(vaultId) :
            response' = Sent("status", vaultId, StatusOf(i))
  /\ UNCHANGED <<now, tz, increase_accounts, withdrawal_requests, handlers>>
  /\ UNCHANGED detectorVars
  /\ UNCHANGED rewardVars

\* req.params.vaultId of a status request
StatusIds == {VaultId, GhostId}

\* the exported functions called directly
DirectCalls ==
  \/ \E v \in BodyIds : CallCheckSoftLock(v, UnitAmount)
  \/ \E v \in BodyIds : CallCreateWithdrawalRequest(v, UnitAmount)

\* the steps of the two endpoints as run by handler h
Endpoints(h) ==
  \/ \E v \in BodyIds, a \in Amounts : WithdrawRequest(h, v, a)
  \/ createWithdrawalRequest(h)
  \/ \E v \in BodyIds, to \in ToAccountIds, a \in Amounts, r \in RequestIds :
       WithdrawExecute(h, v, to, a, r)
  \/ \E success \in BOOLEAN : createAccountTransfer(h, success)

\* one request handled at a time
Next ==
  \/ Advance
  \/ DirectCalls
  \/ Endpoints("h1")
  \/ \E v \in StatusIds : WithdrawStatus(v)

Spec == Init /\ [][Next]_vars

\* two requests handled at a time, their awaits interleaved
NextConcurrent ==
  \/ Advance
  \/ \E h \in Handlers : Endpoints(h)

SpecConcurrent == Init /\ [][NextConcurrent]_vars

\* a second savings vault
SecondVaultId == "vault_2"
Vaults == {VaultId, SecondVaultId}

\* req.body.amount of an execute or a transfer request
TransferAmounts == {UnitAmount, 2 * UnitAmount}

\* POST /api/increase/transfer: the ledger accepts or refuses the transfer
IncreaseTransfer(fromAccountId, toAccountId, amount, success) ==
  /\ IF success
     THEN /\ LedgerAccepts(fromAccountId, toAccountId, amount)
          /\ increase_accounts' =
               [increase_accounts EXCEPT ![fromAccountId].balance = @ - amount,
                                         ![toAccountId].balance = @ + amount]
     ELSE UNCHANGED increase_accounts
  /\ response' = Sent("transfer", fromAccountId,
         [BlankReply EXCEPT !.status = 200, !.success = success])
  /\ UNCHANGED <<now, tz, withdrawal_requests, handlers>>
  /\ UNCHANGED detectorVars
  /\ UNCHANGED rewardVars

\* two vaults and the main account, no request yet
InitTwoVaults ==
  /\ now = 0
  /\ tz = 0
  /\ increase_accounts =
       (VaultId :> [account_type |-> "vault", balance |-> InitialVaultBalance,
                    goal_amount |-> VaultGoal]) @@
       (SecondVaultId :> [account_type |-> "vault", balance |-> InitialVaultBalance,
                          goal_amount |-> VaultGoal]) @@
       (MainId :> [account_type |-> "main", balance |-> 0, goal_amount |-> 0])
  /\ withdrawal_requests = <<>>
  /\ handlers = [h \in Handlers |-> IdleHandler]
  /\ response = Sent("", "", BlankReply)
  /\ transactions = <<>>
  /\ callHour = 0
  /\ result = NoResult
  /\ RewardsIdle

\* the withdrawal routes and the transfer route, one request handled at a time
NextWithdrawals ==
  \/ Advance
  \/ \E v \in Vaults : WithdrawRequest("h1", v, UnitAmount)
  \/ createWithdrawalRequest("h1")
  \/ \E v \in Vaults, a \in TransferAmounts, r \in RequestIds :
       WithdrawExecute("h1", v, MainId, a, r)
  \/ \E success \in BOOLEAN : createAccountTransfer("h1", success)
  \/ \E v \in Vaults, a \in TransferAmounts, success \in BOOLEAN :
       IncreaseTransfer(v, MainId, a, success)

SpecWithdrawals == InitTwoVaults /\ [][NextWithdrawals]_vars

----------------------------------------------------------------------------
(* JavaScript numbers *)

\* IEEE 754 double: 53 significant binary digits
SignificandBits == 53
\* binary digits of a decimal fraction generated before rounding
FractionDigits == 64
\* a transaction amount is a decimal with two places
CentsPerDollar == 100

Zeros(n) == [i \in 1..n |-> 0]

Min(a, b) == IF a <= b THEN a ELSE b

\* Math.abs
Abs(x) == IF x < 0 THEN 0 - x ELSE x

\* the binary digits of a natural number, most significant first
NatBits(n) ==
  LET len == CHOOSE l \in 0..n : 2^l > n /\ (l = 0 \/ 2^(l - 1) <= n)
  IN  [i \in 1..len |-> (n \div 2^(len - i)) % 2]

\* 2^k modulo d
RECURSIVE PowerOfTwoMod(_, _)
PowerOfTwoMod(k, d) ==
  IF k = 0 THEN 1 % d
  ELSE LET h == PowerOfTwoMod(k \div 2, d)
       IN  (h * h * (IF k % 2 = 1 THEN 2 ELSE 1)) % d

\* what is left of the fraction r / d after its first k binary digits
Remainder(r, d, k) == (r * PowerOfTwoMod(k, d)) % d

\* the first k binary digits of the fraction r / d, r < d
FracBits(r, d, k) == [i \in 1..k |-> (2 * Remainder(r, d, i - 1)) \div d]

\* bits without its leading zeros
StripZeros(bits) ==
  IF \A i \in 1..Len(bits) : bits[i] = 0 THEN <<>>
  ELSE LET first == CHOOSE i \in 1..Len(bits) :
                      bits[i] = 1 /\ \A j \in 1..(i - 1) : bits[j] = 0
       IN  SubSeq(bits, first, Len(bits))

\* bits + 1, for bits that are not all 1
Increment(bits) ==
  LET k == CHOOSE i \in 1..Len(bits) :
             bits[i] = 0 /\ \A j \in (i + 1)..Len(bits) : bits[j] = 1
  IN  [i \in 1..Len(bits) |-> IF i < k THEN bits[i] ELSE IF i = k THEN 1 ELSE 0]

\* the double 0; any other double that is not negative is m * 2^e with m of
\* SignificandBits digits, the first of them 1
Zero == [m |-> <<>>, e |-> 0]

\* round to nearest, ties to even: the double nearest to bits * 2^e (plus a
\* positive amount below one unit of the last digit when inexact)
RoundToDouble(bits, e, inexact) ==
  LET b == StripZeros(bits)
      n == Len(b)
  IN  IF n = 0 THEN Zero
      ELSE IF n <= SignificandBits
      THEN [m |-> b \o Zeros(SignificandBits - n), e |-> e - (SignificandBits - n)]
      ELSE LET head == SubSeq(b, 1, SignificandBits)
               guard == b[SignificandBits + 1]
               sticky == inexact \/ \E i \in (SignificandBits + 2)..n : b[i] = 1
               up == guard = 1 /\ (sticky \/ head[SignificandBits] = 1)
               e2 == e + (n - SignificandBits)
           IN  IF ~up THEN [m |-> head, e |-> e2]
               ELSE IF \A i \in 1..SignificandBits : head[i] = 1
               THEN [m |-> <<1>> \o Zeros(SignificandBits - 1), e |-> e2 + 1]
               ELSE [m |-> Increment(head), e |-> e2]

\* the double that the decimal literal of c cents (c / 100) parses to, c >= 0
ParseDecimal(c) ==
  RoundToDouble(NatBits(c \div CentsPerDollar)
                  \o FracBits(c % CentsPerDollar, CentsPerDollar, FractionDigits),
                0 - FractionDigits,
                Remainder(c % CentsPerDollar, CentsPerDollar, FractionDigits) # 0)

\* x < y on doubles that are not negative
Less(x, y) ==
  IF y = Zero THEN FALSE
  ELSE IF x = Zero THEN TRUE
  ELSE IF x.e # y.e THEN x.e < y.e
  ELSE \E i \in 1..SignificandBits :
         x.m[i] < y.m[i] /\ \A j \in 1..(i - 1) : x.m[j] = y.m[j]

\* a + b on digit strings of equal length n, as n + 1 digits: the carry into
\* digit i comes from the nearest digit to its right where a and b agree
AddBits(a, b) ==
  LET n == Len(a)
      carry(i) == \E j \in (i + 1)..n :
                    a[j] = 1 /\ b[j] = 1 /\ \A k \in (i + 1)..(j - 1) : a[k] # b[k]
      c(i) == IF carry(i) THEN 1 ELSE 0
  IN  <<c(0)>> \o [i \in 1..n |-> (a[i] + b[i] + c(i)) % 2]

\* a - b on digit strings of equal length n, a >= b
SubBits(a, b) ==
  LET n == Len(a)
      borrow(i) == \E j \in (i + 1)..n :
                     a[j] = 0 /\ b[j] = 1 /\ \A k \in (i + 1)..(j - 1) : a[k] = b[k]
      c(i) == IF borrow(i) THEN 1 ELSE 0
  IN  [i \in 1..n |-> (a[i] - b[i] - c(i)) % 2]

\* the digits of x over the unit 2^e, e <= x.e, padded on the left to length n
Aligned(x, e, n) ==
  LET b == IF x = Zero THEN <<>> ELSE x.m \o Zeros(x.e - e)
  IN  Zeros(n - Len(b)) \o b

\* x + y on doubles that are not negative
Plus(x, y) ==
  IF x = Zero THEN y
  ELSE IF y = Zero THEN x
  ELSE LET e == Min(x.e, y.e)
           n == SignificandBits + (IF x.e > y.e THEN x.e - y.e ELSE y.e - x.e)
       IN  RoundToDouble(AddBits(Aligned(x, e, n), Aligned(y, e, n)), e, FALSE)

\* x - y on doubles that are not negative, x >= y
Minus(x, y) ==
  IF y = Zero THEN x
  ELSE LET e == Min(x.e, y.e)
           n == SignificandBits + (IF x.e > y.e THEN x.e - y.e ELSE y.e - x.e)
       IN  RoundToDouble(SubBits(Aligned(x, e, n), Aligned(y, e, n)), e, FALSE)

\* x / 2^k
Scaled(x, k) == IF x = Zero THEN Zero ELSE [m |-> x.m, e |-> x.e - k]

\* x * 1.5
TimesOneAndAHalf(x) == Plus(x, Scaled(x, 1))

\* reported amounts are kept in units of 1/80 cent, in which a fifth, a
\* quarter, a half and one and a half times of what the detectors report are
\* whole numbers
UnitsPerCent == 80
Exact(cents) == cents * UnitsPerCent

\* (a / m).toFixed(1) in tenths: the nearest tenth; where a / m lies halfway
\* between two tenths the double's last digit decides, either can result
ToFixed1(a, m) ==
  LET lower == (10 * a) \div m
      rest == (10 * a) % m
  IN  IF 2 * rest < m THEN {lower}
      ELSE IF 2 * rest > m THEN {lower + 1}
      ELSE {lower, lower + 1}

----------------------------------------------------------------------------
(* Detectors *)

\* bound: the length of a transaction list
MaxTransactions == 4

HoursPerDay == 24
\* detectWindfall: 30 * 24 * 60 * 60 * 1000
WindfallWindowDays == 30
\* analyzeWeeklySweep: 7 * 24 * 60 * 60 * 1000 and 35 * 24 * 60 * 60 * 1000
WeekDays == 7
FiveWeeksDays == 35
BaselineWeeks == 4
\* unspentAmount > 5, in cents
SweepThresholdCents == 500

\* the day of the calls, and the two times of day at which they are made:
\* midnight UTC and noon
Today == 40
CallHours == {Today * HoursPerDay, Today * HoursPerDay + 12}

\* new Date(t.date) for the date daysAgo days before the day of the call: a
\* date without a time is midnight UTC
DaysAgo(daysAgo) == (Today - daysAgo) * HoursPerDay

\* what new Date(t.date).getTime() is for an unparsable date, and what a
\* non-numeric t.amount converts to
NaN == 0 - 1000000

\* a < b, a > b, a >= b on numbers: false when either side is NaN
Lt(a, b) == a # NaN /\ b # NaN /\ a < b
Gt(a, b) == a # NaN /\ b # NaN /\ a > b
Ge(a, b) == a # NaN /\ b # NaN /\ a >= b

\* a transaction record with the fields the detectors read
Record(amount, date, name, merchant_name) ==
  [amount |-> amount, date |-> date, name |-> name, merchant_name |-> merchant_name]

Txn(amount, daysAgo) == Record(amount, DaysAgo(daysAgo), "Deposit", "")

\* the lists of at most MaxTransactions transactions drawn from pool
Lists(pool) == UNION {[1..n -> pool] : n \in 0..MaxTransactions}

\* credits around a median of 0.70
WindfallPool ==
  {Txn(-70, 31), Txn(-70, 1), Txn(-105, 1), Txn(-106, 1), Txn(-200, 30), Txn(-200, 31)}

\* debits around an underspend of 5.00
SweepPool ==
  {Txn(3220, 10), Txn(305, 1), Txn(4004, 35), Txn(500, 7), Txn(4000, 36),
   Txn(500, -1), Txn(4000, 10)}

\* credits, debits and a zero amount
MixedPool ==
  {Txn(-70, 1), Txn(-200, 1), Txn(-70, 31), Txn(0, 1), Txn(500, 1), Txn(4004, 10)}

\* credits and debits, some with an unparsable date or a non-numeric amount
MalformedPool ==
  {Txn(-70, 1), Txn(-200, 1), Record(-70, NaN, "Deposit", ""),
   Record(NaN, DaysAgo(1), "Deposit", ""), Txn(4004, 10),
   Record(4004, NaN, "Purchase", "")}

\* credits with and without a description and a counterparty name
LabelPool ==
  {Txn(-70, 31), Txn(-70, 2), Record(-200, DaysAgo(1), "Payroll", "Acme Corp"),
   Record(-201, DaysAgo(1), "", "Acme Corp"), Record(-202, DaysAgo(1), "", "")}

\* the amounts that occur, parsed once
AmountsInUse ==
  {Abs(t.amount) : t \in WindfallPool \cup SweepPool \cup MixedPool \cup LabelPool}
    \cup {SweepThresholdCents}
Parsed == [c \in AmountsInUse |-> ParseDecimal(c)]

\* the double of a transaction amount of c cents
Double(c) == IF c \in AmountsInUse THEN Parsed[c] ELSE ParseDecimal(c)

\* incomeTransactions.sort((a, b) => a - b): ascending
RECURSIVE SortAscending(_)
SortAscending(s) ==
  IF s = <<>> THEN <<>>
  ELSE LET least == CHOOSE i \in 1..Len(s) : \A j \in 1..Len(s) : s[i] <= s[j]
       IN  <<s[least]>> \o
           SortAscending([k \in 1..(Len(s) - 1) |-> IF k < least THEN s[k] ELSE s[k + 1]])

\* the incomes were a zero amount taken for a credit
IncomeTransactions_NotPositive(txns) ==
  LET credits == SelectSeq(txns, LAMBDA t : t.amount <= 0)
  IN  [i \in 1..Len(credits) |-> Abs(credits[i].amount)]

\* transactions.filter(t => t.amount < 0).map(t => Math.abs(t.amount))
IncomeTransactions(txns) ==
  LET credits == SelectSeq(txns, LAMBDA t : Lt(t.amount, 0))
  IN  [i \in 1..Len(credits) |-> Abs(credits[i].amount)]

\* incomeTransactions[Math.floor(incomeTransactions.length / 2)] once sorted
\* (the first element of a sequence has index 1)
Median_LowerMiddle(incomes) ==
  SortAscending(incomes)[((Len(incomes) - 1) \div 2) + 1]

Median(incomes) == SortAscending(incomes)[(Len(incomes) \div 2) + 1]

\* the filter of recentLargeDeposits with txnDate > thirtyDaysAgo
\* (threshold is the double median * 1.5)
IsRecentLargeDeposit_After(t, threshold, thirtyDaysAgo) ==
  /\ Lt(t.amount, 0)
  /\ Less(threshold, Double(Abs(t.amount)))
  /\ Gt(t.date, thirtyDaysAgo)

\* the filter of recentLargeDeposits: t.amount < 0 &&
\* Math.abs(t.amount) > (median * 1.5) && txnDate >= thirtyDaysAgo
\* (threshold is the double median * 1.5)
IsRecentLargeDeposit(t, threshold, thirtyDaysAgo) ==
  /\ Lt(t.amount, 0)
  /\ Less(threshold, Double(Abs(t.amount)))
  /\ Ge(t.date, thirtyDaysAgo)

\* incomeTransactions.length < 2
MinIncomes == 2

\* the least number of income observations
RequiredIncomes_OneLess == MinIncomes - 1

RequiredIncomes == MinIncomes

NoWindfall(reason) ==
  [isWindfall |-> FALSE, reason |-> reason, error |-> "", amount |-> 0,
   medianIncome |-> 0, multiplier |-> 0, source |-> "", date |-> 0,
   suggestedSavings |-> 0, reasonSource |-> ""]

\* the element of recentLargeDeposits mapped from the transaction t
Deposit(t) ==
  [amount |-> Abs(t.amount), date |-> t.date, name |-> t.name,
   merchant |-> t.merchant_name]

\* windfall.name || windfall.merchant || 'Unknown' (an absent or empty text
\* is "")
SourceOf(windfall) ==
  IF windfall.name # "" THEN windfall.name
  ELSE IF windfall.merchant # "" THEN windfall.merchant
  ELSE "Unknown"

\* ${windfall.source} in the template of reason: the property source of the
\* element of recentLargeDeposits
ReasonSourceOf(windfall) ==
  IF "source" \in DOMAIN windfall THEN windfall.source ELSE "undefined"

\* the values detectWindfall(transactions) can return when called at hour hour
\* (multiplier in tenths, suggestedSavings in units of 1 / UnitsPerCent cent)
detectWindfall(txns, hour) ==
  LET incomeTransactions == IncomeTransactions(txns)
  IN  IF Len(incomeTransactions) < RequiredIncomes
      THEN {NoWindfall("Not enough transaction history")}
      ELSE LET median == Median(incomeTransactions)
               thirtyDaysAgo == hour - WindfallWindowDays * HoursPerDay
               threshold == TimesOneAndAHalf(Double(median))
               recentLargeDeposits ==
                 SelectSeq(txns, LAMBDA t : IsRecentLargeDeposit(t, threshold, thirtyDaysAgo))
           IN  IF Len(recentLargeDeposits) > 0
               THEN LET windfall == Deposit(recentLargeDeposits[1])
                        amount == windfall.amount
                    IN  {[isWindfall |-> TRUE, reason |-> "Detected", error |-> "",
                          amount |-> amount, medianIncome |-> median,
                          multiplier |-> tenths, source |-> SourceOf(windfall),
                          date |-> windfall.date,
                          suggestedSavings |-> Exact(amount) \div 5,
                          reasonSource |-> ReasonSourceOf(windfall)] :
                            tenths \in ToFixed1(amount, median)}
               ELSE {NoWindfall("No recent large deposits detected")}

\* the prompt with the 10% and 30% options exchanged
generateWindfallPrompt_Reordered(windfallData) ==
  LET suggestedSavings == windfallData.suggestedSavings
  IN  [options |->
         <<[label |-> "Save 20%", value |-> suggestedSavings, percentage |-> 20],
           [label |-> "Save 30%", value |-> (suggestedSavings * 3) \div 2, percentage |-> 30],
           [label |-> "Save 10%", value |-> suggestedSavings \div 2, percentage |-> 10],
           [label |-> "No thanks", value |-> 0, percentage |-> 0]>>]

generateWindfallPrompt(windfallData) ==
  LET suggestedSavings == windfallData.suggestedSavings
  IN  [options |->
         <<[label |-> "Save 20%", value |-> suggestedSavings, percentage |-> 20],
           [label |-> "Save 10%", value |-> suggestedSavings \div 2, percentage |-> 10],
           [label |-> "Save 30%", value |-> (suggestedSavings * 3) \div 2, percentage |-> 30],
           [label |-> "No thanks", value |-> 0, percentage |-> 0]>>]

\* reduce((sum, t) => sum + t.amount, 0) on the doubles
RECURSIVE SumDouble(_)
SumDouble(txns) ==
  IF txns = <<>> THEN Zero
  ELSE Plus(SumDouble(SubSeq(txns, 1, Len(txns) - 1)), Double(txns[Len(txns)].amount))

\* the decimal sum the reduce approximates, in cents
RECURSIVE SumCents(_)
SumCents(txns) ==
  IF txns = <<>> THEN 0 ELSE Head(txns).amount + SumCents(Tail(txns))

NoSweep(reason) ==
  [hasSweepOpportunity |-> FALSE, reason |-> reason, error |-> "",
   thisWeekSpending |-> 0, avgWeeklySpending |-> 0, unspentAmount |-> 0,
   suggestedSavings |-> 0]

\* the filter of last4WeeksTransactions
IsBaseline(t, fiveWeeksAgo, oneWeekAgo) ==
  Gt(t.amount, 0) /\ Ge(t.date, fiveWeeksAgo) /\ Lt(t.date, oneWeekAgo)

\* analyzeWeeklySweep(transactions) called at hour hour (amounts in units of
\* 1 / UnitsPerCent cent)
analyzeWeeklySweep(txns, hour) ==
  LET oneWeekAgo == hour - WeekDays * HoursPerDay
      fiveWeeksAgo == hour - FiveWeeksDays * HoursPerDay
      thisWeek ==
        SelectSeq(txns, LAMBDA t : Gt(t.amount, 0) /\ Ge(t.date, oneWeekAgo))
      thisWeekSpending == SumDouble(thisWeek)
      last4WeeksTransactions ==
        SelectSeq(txns, LAMBDA t : IsBaseline(t, fiveWeeksAgo, oneWeekAgo))
  IN  IF Len(last4WeeksTransactions) = 0
      THEN NoSweep("Not enough historical data")
      ELSE LET last4WeeksSpending == SumDouble(last4WeeksTransactions)
               \* / 4 is exact on a double
               avgWeeklySpending == Scaled(last4WeeksSpending, 2)
               overspent == Less(avgWeeklySpending, thisWeekSpending)
               \* unspentAmount > 5
               aboveThreshold ==
                 /\ ~overspent
                 /\ Less(Double(SweepThresholdCents),
                         Minus(avgWeeklySpending, thisWeekSpending))
               avgExact == Exact(SumCents(last4WeeksTransactions)) \div BaselineWeeks
               unspentExact == avgExact - Exact(SumCents(thisWeek))
           IN  IF aboveThreshold
               THEN [hasSweepOpportunity |-> TRUE, reason |-> "You spent less than usual",
                     error |-> "",
                     thisWeekSpending |-> Exact(SumCents(thisWeek)),
                     avgWeeklySpending |-> avgExact,
                     unspentAmount |-> unspentExact,
                     suggestedSavings |-> unspentExact \div 2]
               ELSE NoSweep(IF overspent
                            THEN "You spent more than usual this week"
                            ELSE "Unspent amount is too small to sweep")

\* detectWindfall as it would be if it reversed the caller's array in place
CallDetectWindfall_Reordering ==
  /\ \E r \in detectWindfall(transactions, callHour) :
       result' = [fn |-> "detectWindfall", arg |-> <<>>, value |-> r]
  /\ transactions' =
       [i \in 1..Len(transactions) |-> transactions[Len(transactions) + 1 - i]]
  /\ UNCHANGED callHour
  /\ UNCHANGED softLockVars
  /\ UNCHANGED rewardVars

\* a call of the exported detectWindfall
CallDetectWindfall ==
  /\ \E r \in detectWindfall(transactions, callHour) :
       result' = [fn |-> "detectWindfall", arg |-> <<>>, value |-> r]
  /\ UNCHANGED <<transactions, callHour>>
  /\ UNCHANGED softLockVars
  /\ UNCHANGED rewardVars

\* a call of the exported generateWindfallPrompt with the windfall just detected
CallGenerateWindfallPrompt ==
  /\ result.fn = "detectWindfall"
  /\ result.value.isWindfall
  /\ result' = [fn |-> "generateWindfallPrompt", arg |-> result.value,
                value |-> generateWindfallPrompt(result.value)]
  /\ UNCHANGED <<transactions, callHour>>
  /\ UNCHANGED softLockVars
  /\ UNCHANGED rewardVars

\* a call of the exported analyzeWeeklySweep
CallAnalyzeWeeklySweep ==
  /\ result' = [fn |-> "analyzeWeeklySweep", arg |-> <<>>,
                value |-> analyzeWeeklySweep(transactions, callHour)]
  /\ UNCHANGED <<transactions, callHour>>
  /\ UNCHANGED softLockVars
  /\ UNCHANGED rewardVars

\* the prompt with the two saving options exchanged
generateSweepPrompt_Reordered(sweepData) ==
  LET suggestedSavings == sweepData.suggestedSavings
  IN  [options |->
         <<[label |-> "Save half", value |-> suggestedSavings \div 2],
           [label |-> "Save", value |-> suggestedSavings],
           [label |-> "Keep it all", value |-> 0]>>]

generateSweepPrompt(sweepData) ==
  LET suggestedSavings == sweepData.suggestedSavings
  IN  [options |->
         <<[label |-> "Save", value |-> suggestedSavings],
           [label |-> "Save half", value |-> suggestedSavings \div 2],
           [label |-> "Keep it all", value |-> 0]>>]

WindfallPriority == 1
SweepPriority == 2

\* the opportunities pushed for a windfall result and a sweep result
OpportunitiesOf_SweepFirst(windfall, sweep) ==
  (IF sweep.hasSweepOpportunity
   THEN <<[type |-> "sweep", priority |-> SweepPriority, data |-> sweep,
           prompt |-> generateSweepPrompt(sweep)]>>
   ELSE <<>>)
  \o
  (IF windfall.isWindfall
   THEN <<[type |-> "windfall", priority |-> WindfallPriority, data |-> windfall,
           prompt |-> generateWindfallPrompt(windfall)]>>
   ELSE <<>>)

OpportunitiesOf(windfall, sweep) ==
  (IF windfall.isWindfall
   THEN <<[type |-> "windfall", priority |-> WindfallPriority, data |-> windfall,
           prompt |-> generateWindfallPrompt(windfall)]>>
   ELSE <<>>)
  \o
  (IF sweep.hasSweepOpportunity
   THEN <<[type |-> "sweep", priority |-> SweepPriority, data |-> sweep,
           prompt |-> generateSweepPrompt(sweep)]>>
   ELSE <<>>)

SummaryOf(windfall, sweep) ==
  [windfallDetected |-> windfall.isWindfall,
   sweepAvailable |-> sweep.hasSweepOpportunity,
   totalPotentialSavings |->
     (IF windfall.isWindfall THEN windfall.suggestedSavings ELSE 0)
     + (IF sweep.hasSweepOpportunity THEN sweep.suggestedSavings ELSE 0)]

\* the values runTriplePlayAnalysis(transactions) can return when called at
\* hour hour
runTriplePlayAnalysis(txns, hour) ==
  {[success |-> TRUE,
    opportunities |-> OpportunitiesOf(windfall, analyzeWeeklySweep(txns, hour)),
    summary |-> SummaryOf(windfall, analyzeWeeklySweep(txns, hour))] :
      windfall \in detectWindfall(txns, hour)}

\* a call of the exported runTriplePlayAnalysis
CallRunTriplePlayAnalysis ==
  /\ \E r \in runTriplePlayAnalysis(transactions, callHour) :
       result' = [fn |-> "runTriplePlayAnalysis", arg |-> <<>>, value |-> r]
  /\ UNCHANGED <<transactions, callHour>>
  /\ UNCHANGED softLockVars
  /\ UNCHANGED rewardVars

\* a fresh database, no request in flight
SoftLockIdle ==
  /\ now = 0
  /\ tz = 0
  /\ increase_accounts = <<>>
  /\ withdrawal_requests = <<>>
  /\ handlers = [h \in Handlers |-> IdleHandler]
  /\ response = Sent("", "", BlankReply)

InitDetector(pool) ==
  /\ SoftLockIdle
  /\ transactions \in Lists(pool)
  /\ callHour \in CallHours
  /\ result = NoResult
  /\ RewardsIdle

NextWindfall == CallDetectWindfall \/ CallGenerateWindfallPrompt

SpecWindfall == InitDetector(WindfallPool) /\ [][NextWindfall]_vars

NextSweep == CallAnalyzeWeeklySweep

SpecSweep == InitDetector(SweepPool) /\ [][NextSweep]_vars

NextDetectors == CallDetectWindfall \/ CallAnalyzeWeeklySweep

SpecDetectors == InitDetector(MixedPool) /\ [][NextDetectors]_vars

SpecMalformed == InitDetector(MalformedPool) /\ [][NextDetectors]_vars

NextLabels == CallDetectWindfall

SpecLabels == InitDetector(LabelPool) /\ [][NextLabels]_vars

NextOpportunities ==
  CallDetectWindfall \/ CallAnalyzeWeeklySweep \/ CallRunTriplePlayAnalysis

SpecOpportunities == InitDetector(MixedPool) /\ [][NextOpportunities]_vars

\* the lists analysed while withdrawals are in progress: one that both
\* detectors flag and one that neither does
InterleavedLists ==
  {<<Txn(-70, 1), Txn(-200, 1), Txn(-70, 31), Txn(4004, 10)>>,
   <<Txn(500, 1), Txn(-70, 31)>>}

\* the server with its database and a client's transaction list
InitInterleaved ==
  /\ now = 0
  /\ tz = 0
  /\ increase_accounts =
       (VaultId :> [account_type |-> "vault", balance |-> InitialVaultBalance,
                    goal_amount |-> VaultGoal]) @@
       (MainId :> [account_type |-> "main", balance |-> 0, goal_amount |-> 0])
  /\ withdrawal_requests = <<>>
  /\ handlers = [h \in Handlers |-> IdleHandler]
  /\ response = Sent("", "", BlankReply)
  /\ transactions \in InterleavedLists
  /\ callHour = Today * HoursPerDay
  /\ result = NoResult
  /\ RewardsIdle

\* the analyses run between the steps of the withdrawal endpoints
NextInterleaved ==
  \/ Advance
  \/ Endpoints("h1")
  \/ CallDetectWindfall
  \/ CallAnalyzeWeeklySweep
  \/ CallRunTriplePlayAnalysis

SpecInterleaved == InitInterleaved /\ [][NextInterleaved]_vars

----------------------------------------------------------------------------
(* Rewards *)

\* req.body.userId
Users == {"default_user", "second_user"}

\* bound: the longest streak followed
MaxStreak == 12

\* a last_savings_date that was never written
NoDate == 0 - 1

\* the row INSERT INTO user_settings (user_id, locus_wallet_balance) adds
NewSettings ==
  [savings_streak |-> 0, last_savings_date |-> NoDate, total_ai_rewards |-> 0,
   locus_wallet_balance |-> 0]

\* user_settings after getUserSettings(userId): the row is created if missing
getUserSettings(settings, userId) ==
  IF userId \in DOMAIN settings THEN settings ELSE settings @@ (userId :> NewSettings)

\* calculateStreakBonus
calculateStreakBonus(streakCount) ==
  IF streakCount < 4 THEN 0
  ELSE IF streakCount >= 12 THEN 25
  ELSE IF streakCount >= 8 THEN 15
  ELSE IF streakCount >= 4 THEN 10
  ELSE 5

\* SELECT * FROM rewards_history WHERE streak_count = ? AND status = 'completed'
\* ORDER BY created_at DESC LIMIT 1 (rows with equal created_at come back in
\* an order SQL leaves open)
ExistingReward(streakCount) ==
  LET matching == {i \in 1..Len(rewards_history) :
                     /\ rewards_history[i].streak_count = streakCount
                     /\ rewards_history[i].status = "completed"}
  IN  {i \in matching :
         \A j \in matching : rewards_history[j].created_at <= rewards_history[i].created_at}

\* new Date(settings.last_savings_date): a date without a time is midnight UTC
DateOnly(day) == day * DayMs

\* whether checkAndAwardStreakBonus awards, for the settings row it read
AwardDecisions(settings) ==
  IF settings.savings_streak > 0 /\ settings.savings_streak % 4 = 0
       /\ calculateStreakBonus(settings.savings_streak) > 0
  THEN IF ExistingReward(settings.savings_streak) = {}
       THEN {TRUE}
       ELSE {NewDate(rewards_history[i].created_at) < DateOnly(settings.last_savings_date) :
               i \in ExistingReward(settings.savings_streak)}
  ELSE {FALSE}

\* POST /api/locus/streak/increment: incrementSavingsStreak(userId), then
\* checkAndAwardStreakBonus(userId)
IncrementSavingsStreak(userId) ==
  /\ getUserSettings(user_settings, userId)[userId].savings_streak < MaxStreak
  /\ LET created == getUserSettings(user_settings, userId)
         today == now \div DayMs
         updated == [created EXCEPT ![userId].savings_streak = @ + 1,
                                    ![userId].last_savings_date = today]
         settings == updated[userId]
         bonusAmount == calculateStreakBonus(settings.savings_streak)
     IN  \E award \in AwardDecisions(settings) :
           IF award
           THEN /\ rewards_history' =
                     Append(rewards_history,
                            [reward_type |-> "streak_bonus", amount |-> bonusAmount,
                             streak_count |-> settings.savings_streak,
                             status |-> "completed",
                             created_at |-> CURRENT_TIMESTAMP(now)])
                /\ user_settings' =
                     [updated EXCEPT
                        ![userId].total_ai_rewards = settings.total_ai_rewards + bonusAmount,
                        ![userId].locus_wallet_balance =
                           settings.locus_wallet_balance + bonusAmount]
                /\ reply' = Returned("increment", userId,
                     [NoReward EXCEPT !.success = TRUE, !.awarded = TRUE,
                                      !.amount = bonusAmount,
                                      !.newStreak = settings.savings_streak])
           ELSE /\ rewards_history' = rewards_history
                /\ user_settings' = updated
                /\ reply' = Returned("increment", userId,
                     [NoReward EXCEPT !.success = TRUE])
  /\ UNCHANGED <<user_challenge_progress, claims>>
  /\ UNCHANGED <<softLockVars, detectorVars>>

\* streak increments for two users, one request handled at a time
NextRewards ==
  \/ Advance
  \/ \E u \in Users : IncrementSavingsStreak(u)

SpecRewards == Init /\ [][NextRewards]_vars

\* reward_amount of the weekly challenge
ChallengeReward == 10

\* the streak_count of a row written without one
NoStreak == 0 - 1

\* the row INSERT INTO user_challenge_progress adds
NewProgress == [status |-> "active", reward_claimed |-> 0]

\* user_challenge_progress after getActiveChallenge(userId): the row of this
\* week's challenge is created if missing
getActiveChallenge(progress, userId) ==
  IF userId \in DOMAIN progress THEN progress ELSE progress @@ (userId :> NewProgress)

\* claimChallengeReward(userId) up to its first UPDATE: getActiveChallenge and
\* the two refusals
ClaimChallengeReward(h, userId) ==
  /\ claims[h].pc = "idle"
  /\ LET progress == getActiveChallenge(user_challenge_progress, userId)
         isCompleted == progress[userId].status = "completed"
         rewardClaimed == progress[userId].reward_claimed = 1
     IN  /\ user_challenge_progress' = progress
         /\ IF ~isCompleted \/ rewardClaimed
            THEN /\ reply' = Returned("claim", userId, NoReward)
                 /\ UNCHANGED claims
            ELSE /\ claims' = [claims EXCEPT ![h] =
                       [pc |-> "claim_mark", userId |-> userId,
                        rewardAmount |-> ChallengeReward]]
                 /\ UNCHANGED reply
  /\ UNCHANGED <<user_settings, rewards_history>>
  /\ UNCHANGED <<softLockVars, detectorVars>>

\* UPDATE user_challenge_progress SET reward_claimed = 1 WHERE user_id = ? ...
MarkClaimed(h) ==
  /\ claims[h].pc = "claim_mark"
  /\ user_challenge_progress' =
       [user_challenge_progress EXCEPT ![claims[h].userId].reward_claimed = 1]
  /\ claims' = [claims EXCEPT ![h].pc = "claim_credit"]
  /\ UNCHANGED <<user_settings, rewards_history, reply>>
  /\ UNCHANGED <<softLockVars, detectorVars>>

\* UPDATE user_settings SET locus_wallet_balance = locus_wallet_balance + ?,
\* total_ai_rewards = total_ai_rewards + ? WHERE user_id = ?
CreditWallet(h) ==
  /\ claims[h].pc = "claim_credit"
  /\ user_settings' =
       IF claims[h].userId \in DOMAIN user_settings
       THEN [user_settings EXCEPT
               ![claims[h].userId].locus_wallet_balance = @ + claims[h].rewardAmount,
               ![claims[h].userId].total_ai_rewards = @ + claims[h].rewardAmount]
       ELSE user_settings
  /\ claims' = [claims EXCEPT ![h].pc = "claim_record"]
  /\ UNCHANGED <<user_challenge_progress, rewards_history, reply>>
  /\ UNCHANGED <<softLockVars, detectorVars>>

\* INSERT INTO rewards_history (reward_type, amount, reason, status), then the
\* success value
RecordReward(h) ==
  /\ claims[h].pc = "claim_record"
  /\ rewards_history' =
       Append(rewards_history,
              [reward_type |-> "challenge_completion",
               amount |-> claims[h].rewardAmount, streak_count |-> NoStreak,
               status |-> "completed", created_at |-> CURRENT_TIMESTAMP(now)])
  /\ reply' = Returned("claim", claims[h].userId,
         [NoReward EXCEPT !.success = TRUE, !.amount = claims[h].rewardAmount])
  /\ claims' = [claims EXCEPT ![h] = IdleClaim]
  /\ UNCHANGED <<user_settings, user_challenge_progress>>
  /\ UNCHANGED <<softLockVars, detectorVars>>

\* the challenge of the week as the users' saves have left it
ProgressStates ==
  {<<>>} \cup
  {[u \in Users |-> [status |-> status[u], reward_claimed |-> 0]] :
     status \in [Users -> {"active", "completed"}]}

\* the wallet rows once getUserSettings has run for each user
SettingsStates == {[u \in Users |-> NewSettings]}

InitChallenge ==
  /\ now = 0
  /\ tz = 0
  /\ increase_accounts = <<>>
  /\ withdrawal_requests = <<>>
  /\ handlers = [h \in Handlers |-> IdleHandler]
  /\ response = Sent("", "", BlankReply)
  /\ transactions = <<>>
  /\ callHour = 0
  /\ result = NoResult
  /\ user_settings \in SettingsStates
  /\ rewards_history = <<>>
  /\ user_challenge_progress \in ProgressStates
  /\ claims = [h \in Handlers |-> IdleClaim]
  /\ reply = Returned("", "", NoReward)

\* the steps of claimChallengeReward as run by handler h
Claim(h) ==
  \/ \E u \in Users : ClaimChallengeReward(h, u)
  \/ MarkClaimed(h)
  \/ CreditWallet(h)
  \/ RecordReward(h)

\* two claims handled at a time, their awaits interleaved
NextChallenge == \E h \in Handlers : Claim(h)

SpecChallenge == InitChallenge /\ [][NextChallenge]_vars

----------------------------------------------------------------------------
(* Properties *)

Rows == 1..Len(withdrawal_requests)

\* the time since row i was written, by its UTC timestamp
AgeMs(i) == now - withdrawal_requests[i].created_at * SecondMs

\* the step is a direct checkSoftLock call that returned
CheckReturned == response'.op = "check" /\ response' # response

\* the step is handler h running the check phase of an endpoint
EndpointChecked(h) ==
  /\ handlers[h].pc = "idle"
  /\ \/ handlers'[h].pc # "idle"
     \/ /\ handlers' = handlers
        /\ response' # response
        /\ response'.op \in {"request", "execute"}

\* the step is handler h leaving createAccountTransfer
TransferReturned(h) == handlers[h].pc = "exec_transfer" /\ handlers'[h].pc = "idle"

\* the step wrote a new row
RowInserted == Len(withdrawal_requests') > Len(withdrawal_requests)

\* C1: every vault has at most one request with status Pending, whatever
\* sequence of check, create and execute operations ran; a create for a vault
\* that has a Pending request adds no second one.
C1_AtMostOnePending ==
  \A v \in BodyIds : VaultRows(v) # {} => Cardinality(PendingOf(v)) <= 1

\* C2: with two withdraw/request handlers in flight, a handler inserts a
\* Pending row only in a state where its vault has no Pending row: the insert
\* is conditional on the absence of a Pending request.
C2_InsertOnlyWithoutPending ==
  [][\A h \in Handlers :
       (handlers[h].pc = "create_insert" /\ handlers'[h].pc = "idle" /\ RowInserted)
          => PendingOf(handlers[h].vaultId) = {}]_vars

\* C3: the execute endpoint goes on to the ledger transfer only if, when it is
\* called, the vault has a Pending request written at least 24 hours earlier;
\* otherwise it refuses (403, or 400 for a body that lacks a field) and changes
\* neither the requests nor the accounts.
C3_TransferOnlyAfterCooling ==
  [][\A h \in Handlers :
       /\ (handlers[h].pc = "idle" /\ handlers'[h].pc = "exec_transfer")
            => \E i \in PendingOf(handlers'[h].vaultId) : AgeMs(i) >= CoolingHours * HourMs
       /\ (EndpointChecked(h) /\ response'.op = "execute" /\ handlers' = handlers)
            => /\ response'.body.status \in {400, 403}
               /\ withdrawal_requests' = withdrawal_requests
               /\ increase_accounts' = increase_accounts]_vars

\* the decision the soft lock is to give for an existing vault
DecisionAsSpecified(vaultId, body) ==
  IF PendingOf(vaultId) = {}
  THEN /\ ~body.allowed
       /\ body.reason = "new_request"
       /\ body.vault = [balance |-> increase_accounts[vaultId].balance,
                        goalAmount |-> increase_accounts[vaultId].goal_amount]
  ELSE \E i \in PendingLookup(vaultId) :
         IF AgeMs(i) >= CoolingHours * HourMs
         THEN body.allowed /\ body.withdrawalRequestId = withdrawal_requests[i].id
         ELSE /\ ~body.allowed
              /\ body.reason = "cooling_period"
              /\ body.hoursRemaining = CeilDiv(CoolingHours * HourMs - AgeMs(i), HourMs)
              /\ body.hoursRemaining \in 1..CoolingHours

\* C4: for an existing vault checkSoftLock answers allowed (with the request's
\* id) exactly when the most recent Pending request is at least 24 hours old,
\* cooling_period with hoursRemaining = ceil(24 - hoursElapsed), in 1..24,
\* exactly when it is younger, and new_request with the vault snapshot exactly
\* when there is no Pending request.
C4_DecisionMatchesElapsedTime ==
  [][(CheckReturned /\ VaultRows(response'.vaultId) # {})
       => DecisionAsSpecified(response'.vaultId, response'.body)]_vars

\* C5: a checkSoftLock call, direct or inside an endpoint, whatever it decides,
\* leaves the withdrawal requests and the account rows as they were.
C5_CheckIsReadOnly ==
  [][(CheckReturned \/ \E h \in Handlers : EndpointChecked(h))
       => /\ withdrawal_requests' = withdrawal_requests
          /\ increase_accounts' = increase_accounts]_vars

\* C5 witness: a check answered new_request and the vault still has no request
C5_Witness ==
  /\ response.op = "check"
  /\ response.vaultId = VaultId
  /\ response.body.reason = "new_request"
  /\ PendingOf(VaultId) = {}
  /\ now > 0

\* C6: of two successive checkSoftLock answers for a vault whose Pending
\* requests are all younger than 24 hours, the later one is cooling_period
\* again and its hoursRemaining is not larger.
C6_CoolingAnswersDoNotIncrease ==
  [][(/\ CheckReturned
      /\ response.op = "check"
      /\ response.vaultId = response'.vaultId
      /\ response.body.reason = "cooling_period"
      /\ PendingOf(response'.vaultId) # {}
      /\ \A i \in PendingOf(response'.vaultId) : AgeMs(i) < CoolingHours * HourMs)
       => /\ response'.body.reason = "cooling_period"
          /\ response'.body.hoursRemaining <= response.body.hoursRemaining]_vars

\* C7: after createWithdrawalRequest returned availableAt for a vault that had
\* no request, a check 23h59m after the row's timestamp answers cooling_period
\* with hoursRemaining = 1, and a check answers allowed for that row only at or
\* after the availableAt that was returned.
C7_AllowedOnlyFromAvailableAt ==
  [][(/\ CheckReturned
      /\ response.op \in {"create", "request"}
      /\ response.body.success
      /\ response.vaultId = response'.vaultId
      /\ Len(withdrawal_requests) = 1
      /\ withdrawal_requests[1].status = "pending"
      /\ withdrawal_requests[1].vault_id = response'.vaultId)
       => /\ response'.body.allowed => now >= response.body.availableAt
          /\ now >= response.body.availableAt => response'.body.allowed
          /\ AgeMs(1) = DayMs - MinuteMs
               => /\ response'.body.reason = "cooling_period"
                  /\ response'.body.hoursRemaining = 1]_vars

\* every answer checkSoftLock can give for the vault now is allowed, for row i
AllowedFor(vaultId, i) ==
  \A lockCheck \in checkSoftLock(vaultId, UnitAmount) :
     lockCheck.allowed /\ lockCheck.withdrawalRequestId = i

\* every answer checkSoftLock can give for the vault now is allowed
Allowed(vaultId) ==
  \A lockCheck \in checkSoftLock(vaultId, UnitAmount) : lockCheck.allowed

\* C8: once checkSoftLock answers allowed for a Pending request, it answers
\* allowed for that vault after every step that leaves the request Pending.
C8_AllowedStaysAllowed ==
  [][\A i \in Rows :
       (/\ AllowedFor(withdrawal_requests[i].vault_id, i)
        /\ withdrawal_requests'[i].status = "pending")
          => Allowed(withdrawal_requests[i].vault_id)']_vars

\* C9: rows are never removed and keep their id, vault, amount and timestamp; a
\* status changes only from pending to completed, and only in the step in which
\* the execute endpoint's transfer returned success.
C9_AppendOnlyOneWayLifecycle ==
  [][/\ Len(withdrawal_requests') >= Len(withdrawal_requests)
     /\ \A i \in Rows :
          /\ withdrawal_requests'[i].id = withdrawal_requests[i].id
          /\ withdrawal_requests'[i].vault_id = withdrawal_requests[i].vault_id
          /\ withdrawal_requests'[i].amount = withdrawal_requests[i].amount
          /\ withdrawal_requests'[i].created_at = withdrawal_requests[i].created_at
          /\ withdrawal_requests[i].status = "completed"
               => withdrawal_requests'[i].status = "completed"
          /\ withdrawal_requests'[i].status # withdrawal_requests[i].status
               => /\ withdrawal_requests[i].status = "pending"
                  /\ withdrawal_requests'[i].status = "completed"
                  /\ \E h \in Handlers : TransferReturned(h)
                  /\ response'.op = "execute"
                  /\ response'.body.success]_vars

\* C9 witness: an execute completed one request while another row stays pending
C9_Witness ==
  /\ response.op = "execute"
  /\ response.body.success
  /\ \E i, j \in Rows :
       /\ withdrawal_requests[i].status = "completed"
       /\ withdrawal_requests[j].status = "pending"

\* C10: no request row names an id for which the vault lookup of checkSoftLock
\* finds nothing: create on a vault that does not exist inserts nothing.
C10_NoRequestForMissingVault ==
  \A i \in Rows : VaultRows(withdrawal_requests[i].vault_id) # {}

\* the step is the status endpoint answering
StatusReturned == response'.op = "status" /\ response' # response

\* C11: for every vault the status endpoint reports hasActiveRequest exactly
\* when the vault has a Pending request; then hoursRemaining is
\* max(0, ceil(24 - hoursElapsed)), never negative, and canWithdraw is true
\* exactly when 24 hours have elapsed since the request was written, which is
\* exactly when checkSoftLock at the same instant answers allowed.
C11_StatusMatchesPendingRequest ==
  [][(StatusReturned /\ VaultRows(response'.vaultId) # {})
       => LET v == response'.vaultId
              body == response'.body
          IN  /\ body.hasActiveRequest <=> PendingOf(v) # {}
              /\ body.hasActiveRequest =>
                    \E i \in PendingLookup(v) :
                       /\ body.hoursRemaining >= 0
                       /\ body.hoursRemaining =
                            Max(0, CeilDiv(CoolingHours * HourMs - AgeMs(i), HourMs))
                       /\ body.canWithdraw <=> AgeMs(i) >= CoolingHours * HourMs
                       /\ body.canWithdraw <=> Allowed(v)]_vars

----------------------------------------------------------------------------
(* Properties of the detectors *)

\* the positions of the credits and of the debits in the list
Credits == {i \in 1..Len(transactions) : transactions[i].amount < 0}
Debits == {i \in 1..Len(transactions) : transactions[i].amount > 0}

Income(i) == Abs(transactions[i].amount)

\* v is the income at 0-based index floor(n / 2) of the ascending incomes
IsMiddleIncome(v) ==
  /\ \E i \in Credits : Income(i) = v
  /\ Cardinality({i \in Credits : Income(i) < v}) <= Cardinality(Credits) \div 2
  /\ Cardinality({i \in Credits : Income(i) <= v}) > Cardinality(Credits) \div 2

BaselineIncome == CHOOSE v \in {Income(i) : i \in Credits} : IsMiddleIncome(v)

\* the instant 30 days before the call
WindowStart == callHour - WindfallWindowDays * HoursPerDay

\* credit i is inside the window and strictly above 1.5 x the baseline
Qualifies(i) ==
  /\ i \in Credits
  /\ 2 * Income(i) > 3 * BaselineIncome
  /\ transactions[i].date >= WindowStart

WindfallReturned == result.fn = "detectWindfall"
SweepReturned == result.fn = "analyzeWeeklySweep"

\* C12: with at least 2 incomes and baseline M, detectWindfall answers
\* isWindfall exactly when some credit inside the 30-day window has an
\* absolute amount strictly greater than 1.5 x M: a credit of exactly 1.5 x M
\* does not trigger, one of 1.5 x M + 0.01 does.
C12_StrictThreshold ==
  (WindfallReturned /\ Cardinality(Credits) >= MinIncomes)
    => (result.value.isWindfall <=> \E i \in Credits : Qualifies(i))

\* C13: the baseline is the income at 0-based index floor(n / 2) of the
\* ascending absolute values of all credits of the list, whatever their order
\* and dates; for even n it is the element at sorted index n / 2, not the
\* mean of the two middle ones.
C13_MedianIsUpperMiddle ==
  Cardinality(Credits) >= MinIncomes
    => /\ IsMiddleIncome(Median(IncomeTransactions(transactions)))
       /\ (WindfallReturned /\ result.value.isWindfall)
            => IsMiddleIncome(result.value.medianIncome)

\* C13 witness: a windfall reported over four incomes whose two middle ones differ
C13_Witness ==
  /\ WindfallReturned
  /\ result.value.isWindfall
  /\ Cardinality(Credits) = 4
  /\ result.value.medianIncome # Median_LowerMiddle(IncomeTransactions(transactions))

FirstQualifying == CHOOSE i \in Credits : Qualifies(i) /\ \A j \in Credits : Qualifies(j) => i <= j

\* C15: when some credit qualifies, detectWindfall reports the first one in
\* input order, with amount = |amount|, multiplier = amount / median and
\* suggestedSavings = 0.20 x amount.
C15_FirstQualifyingReported ==
  (WindfallReturned /\ Cardinality(Credits) >= MinIncomes)
    => /\ result.value.isWindfall <=> \E i \in Credits : Qualifies(i)
       /\ result.value.isWindfall
            => /\ result.value.amount = Income(FirstQualifying)
               /\ result.value.date = transactions[FirstQualifying].date
               /\ result.value.multiplier * result.value.medianIncome
                    = 10 * result.value.amount
               /\ 5 * result.value.suggestedSavings = Exact(result.value.amount)

PromptReturned == result.fn = "generateWindfallPrompt"

BaselineDebits ==
  {i \in Debits :
     /\ transactions[i].date >= callHour - FiveWeeksDays * HoursPerDay
     /\ transactions[i].date < callHour - WeekDays * HoursPerDay}

\* the debits dated in the 7 days that end with the call
WeekDebits ==
  {i \in Debits :
     /\ transactions[i].date >= callHour - WeekDays * HoursPerDay
     /\ transactions[i].date <= callHour}

\* the sum of the amounts at the positions in set, in cents
RECURSIVE Total(_)
Total(set) ==
  IF set = {} THEN 0
  ELSE LET i == CHOOSE i \in set : TRUE
       IN  transactions[i].amount + Total(set \ {i})

\* C17: too little data is a normal negative result: fewer than 2 credits give
\* isWindfall = false with the insufficient-history reason, a baseline window
\* without any debit gives hasSweepOpportunity = false with the
\* insufficient-data reason, and neither result carries an error.
C17_InsufficientDataIsNegative ==
  /\ (WindfallReturned /\ Cardinality(Credits) < 2)
       => /\ ~result.value.isWindfall
          /\ result.value.reason = "Not enough transaction history"
          /\ result.value.error = ""
  /\ (SweepReturned /\ BaselineDebits = {})
       => /\ ~result.value.hasSweepOpportunity
          /\ result.value.reason = "Not enough historical data"
          /\ result.value.error = ""

\* C17 witness: detectWindfall answered for a list with exactly one credit
\* and debits only in the current week
C17_Witness ==
  /\ WindfallReturned
  /\ Cardinality(Credits) = 1
  /\ BaselineDebits = {}
  /\ WeekDebits # {}

\* C18: currentWeekSpend is the sum of exactly the debits of the trailing 7
\* days ending at the call, trailingAverageWeeklySpend the sum of exactly the
\* debits of the 28 days before that divided by 4; debits older than 35 days
\* or dated after the call count in neither.
C18_SweepWindows ==
  (SweepReturned /\ result.value.hasSweepOpportunity)
    => /\ result.value.thisWeekSpending = Exact(Total(WeekDebits))
       /\ BaselineWeeks * result.value.avgWeeklySpending = Exact(Total(BaselineDebits))

\* C19: with a baseline, analyzeWeeklySweep flags an opportunity exactly when
\* the average weekly spend less the current week's spend is strictly greater
\* than 5 (5.00 does not trigger, 5.01 does), and then suggests half of it.
\* (Stated for lists without a transaction dated after the call.)
C19_SweepThreshold ==
  (/\ SweepReturned
   /\ BaselineDebits # {}
   /\ \A i \in 1..Len(transactions) : transactions[i].date <= callHour)
    => LET underspend4 == Exact(Total(BaselineDebits))
                            - BaselineWeeks * Exact(Total(WeekDebits))
       IN  /\ result.value.hasSweepOpportunity
                <=> underspend4 > BaselineWeeks * Exact(SweepThresholdCents)
           /\ result.value.hasSweepOpportunity
                => /\ BaselineWeeks * result.value.unspentAmount = underspend4
                   /\ 2 * result.value.suggestedSavings = result.value.unspentAmount

\* C20: both detectors apply one sign convention: what detectWindfall answers
\* is what it answers for the credits (amount < 0) alone, what
\* analyzeWeeklySweep answers is what it answers for the debits (amount > 0)
\* alone; a zero amount counts in neither.
C20_SignConvention ==
  /\ WindfallReturned
       => result.value \in
            detectWindfall(SelectSeq(transactions, LAMBDA t : t.amount < 0), callHour)
  /\ SweepReturned
       => result.value =
            analyzeWeeklySweep(SelectSeq(transactions, LAMBDA t : t.amount > 0), callHour)

\* C20 witness: a sweep found over a list with a credit, a zero amount and debits
C20_Witness ==
  /\ SweepReturned
  /\ result.value.hasSweepOpportunity
  /\ Credits # {}
  /\ \E i \in 1..Len(transactions) : transactions[i].amount = 0

TriplePlayReturned == result.fn = "runTriplePlayAnalysis"

\* the sum of the suggestedSavings of the listed opportunities
RECURSIVE ListedSavings(_)
ListedSavings(opportunities) ==
  IF opportunities = <<>> THEN 0
  ELSE Head(opportunities).data.suggestedSavings + ListedSavings(Tail(opportunities))

\* C21: the aggregator returns exactly the flagged opportunities: a windfall
\* entry of priority 1 if and only if detectWindfall flags the list, a sweep
\* entry of priority 2 if and only if analyzeWeeklySweep flags it, the windfall
\* before the sweep, each with the detector's result and the prompt generated
\* from it; the two flags of the summary are the detectors' flags and
\* totalPotentialSavings is the sum of suggestedSavings over the listed
\* opportunities, 0 when there is none.
C21_ExactlyTheFlaggedOpportunities ==
  TriplePlayReturned =>
    LET r == result.value
        listed == r.opportunities
        sweep == analyzeWeeklySweep(transactions, callHour)
        Entries(type) == {i \in 1..Len(listed) : listed[i].type = type}
    IN  /\ r.success
        /\ \E windfall \in detectWindfall(transactions, callHour) :
             /\ r.summary.windfallDetected = windfall.isWindfall
             /\ Cardinality(Entries("windfall")) = IF windfall.isWindfall THEN 1 ELSE 0
             /\ \A i \in Entries("windfall") :
                  /\ listed[i].priority = 1
                  /\ listed[i].data = windfall
                  /\ listed[i].prompt = generateWindfallPrompt(windfall)
        /\ r.summary.sweepAvailable = sweep.hasSweepOpportunity
        /\ Cardinality(Entries("sweep")) = IF sweep.hasSweepOpportunity THEN 1 ELSE 0
        /\ \A i \in Entries("sweep") :
             /\ listed[i].priority = 2
             /\ listed[i].data = sweep
             /\ listed[i].prompt = generateSweepPrompt(sweep)
        /\ Entries("windfall") \cup Entries("sweep") = 1..Len(listed)
        /\ \A i \in Entries("windfall"), j \in Entries("sweep") : i < j
        /\ r.summary.totalPotentialSavings = ListedSavings(listed)

\* both detectors flag the list and the aggregator has listed both
C21_Witness ==
  /\ TriplePlayReturned
  /\ Len(result.value.opportunities) = 2
  /\ result.value.summary.totalPotentialSavings > 0

\* a step in which a detector or the aggregator returns
AnalysisStep ==
  /\ result' # result
  /\ result'.fn \in {"detectWindfall", "analyzeWeeklySweep", "runTriplePlayAnalysis"}

\* the values fn can return on the list txns at hour hour
AnalysisOf(fn, txns, hour) ==
  CASE fn = "detectWindfall" -> detectWindfall(txns, hour)
    [] fn = "analyzeWeeklySweep" -> {analyzeWeeklySweep(txns, hour)}
    [] fn = "runTriplePlayAnalysis" -> runTriplePlayAnalysis(txns, hour)

\* C22: detectWindfall, analyzeWeeklySweep and the aggregator have no side
\* effect: a call leaves the caller's transaction list (contents and order),
\* the vault records and the withdrawal-request ledger as they were, and what
\* it returns between the steps of soft-lock operations is what it returns on
\* the list alone.
C22_AnalysesHaveNoSideEffects ==
  [][AnalysisStep =>
       /\ transactions' = transactions
       /\ increase_accounts' = increase_accounts
       /\ withdrawal_requests' = withdrawal_requests
       /\ handlers' = handlers
       /\ result'.value \in AnalysisOf(result'.fn, transactions, callHour)]_vars

\* the aggregator has returned both opportunities while a withdrawal request
\* is recorded and an execute request is waiting for its transfer
C22_Witness ==
  /\ TriplePlayReturned
  /\ Len(result.value.opportunities) = 2
  /\ withdrawal_requests # <<>>
  /\ handlers["h1"].pc # "idle"

\* a record with a parseable date and a numeric amount
WellFormed(t) == t.amount # NaN /\ t.date # NaN

\* C23: malformed records are skipped one by one: each detector answers what
\* it answers on the list without the records whose date is unparsable or
\* whose amount is not a number, so that such a record enters neither the
\* windfall median, nor the windfall candidates, nor a sweep sum, and the
\* answer is never an error.
C23_MalformedRecordsSkipped ==
  /\ WindfallReturned =>
       /\ result.value.error = ""
       /\ result.value \in detectWindfall(SelectSeq(transactions, WellFormed), callHour)
  /\ SweepReturned =>
       /\ result.value.error = ""
       /\ result.value = analyzeWeeklySweep(SelectSeq(transactions, WellFormed), callHour)

\* the label of a transaction: its description, else its counterparty name,
\* else "Unknown"
LabelOf(t) ==
  IF t.name # "" THEN t.name
  ELSE IF t.merchant_name # "" THEN t.merchant_name
  ELSE "Unknown"

\* the positions of the transactions a positive result can be reporting
Reported ==
  {i \in 1..Len(transactions) :
     /\ Abs(transactions[i].amount) = result.value.amount
     /\ transactions[i].date = result.value.date}

\* C25: in every positive windfall result the source label is the
\* transaction's description if it has one, else its counterparty name, else
\* "Unknown", and the explanation cites that same label.
C25_SourceLabel ==
  (WindfallReturned /\ result.value.isWindfall) =>
    /\ \E i \in Reported : result.value.source = LabelOf(transactions[i])
    /\ result.value.reasonSource = result.value.source

\* the step is handler h's transfer reporting success
TransferSucceeded(h) == TransferReturned(h) /\ response'.body.success

\* the Pending requests of a vault that are at least 24 hours old
Eligible(vaultId) == {i \in PendingOf(vaultId) : AgeMs(i) >= CoolingHours * HourMs}

\* C26: an eligible request authorizes at most one executed withdrawal: once
\* the execute endpoint has made a successful transfer for a vault, that vault
\* has no Pending request left, whatever request id, or none, the caller sent.
C26_RequestSpentByExecute ==
  [][\A h \in Handlers : \A v \in Vaults :
       (TransferSucceeded(h) /\ handlers[h].vaultId = v) => PendingOf(v)' = {}]_vars

\* C27: the execute endpoint called for vault V marks a request Completed only
\* if it belongs to V, was Pending and is the request, at least 24 hours old,
\* on which the allow decision rested; never a request of another vault or one
\* inside its cooling period.
C27_MarksOnlyTheEligibleRequest ==
  [][\A h \in Handlers : \A i \in Rows :
       (TransferReturned(h) /\ withdrawal_requests'[i].status # withdrawal_requests[i].status)
         => /\ withdrawal_requests[i].vault_id = handlers[h].vaultId
            /\ withdrawal_requests[i].status = "pending"
            /\ i \in Eligible(handlers[h].vaultId)
            /\ i \in PendingLookup(handlers[h].vaultId)]_vars

\* C28: the amount the execute endpoint moves out of a vault is the amount
\* recorded in the Pending request that cooled off.
C28_TransfersTheRequestedAmount ==
  [][\A h \in Handlers :
       TransferSucceeded(h) =>
         \E i \in Eligible(handlers[h].vaultId) :
            increase_accounts[handlers[h].vaultId].balance
              - increase_accounts'[handlers[h].vaultId].balance
            = withdrawal_requests[i].amount]_vars

\* C29: whatever the operation, money leaves a vault only while that vault has
\* a Pending request at least 24 hours old: the transfer route does not go
\* round the soft lock.
C29_NoVaultDebitWithoutCooledRequest ==
  [][\A v \in Vaults :
       increase_accounts'[v].balance < increase_accounts[v].balance
         => Eligible(v) # {}]_vars

\* the streak, wallet balance and total rewards of a user (0 without a row)
StreakOf(u) == IF u \in DOMAIN user_settings THEN user_settings[u].savings_streak ELSE 0
WalletOf(u) ==
  IF u \in DOMAIN user_settings THEN user_settings[u].locus_wallet_balance ELSE 0
TotalRewardsOf(u) ==
  IF u \in DOMAIN user_settings THEN user_settings[u].total_ai_rewards ELSE 0

\* the step is a streak increment for user u
Incremented(u) == reply'.op = "increment" /\ reply'.userId = u /\ StreakOf(u)' # StreakOf(u)

\* the bonus the tiers give a streak that is a positive multiple of 4
TierBonus(streak) ==
  CASE streak = 4 -> 10
    [] streak = 8 -> 15
    [] streak >= 12 -> 25

\* C24: an accepted suggestion raises the user's streak by exactly one; a
\* bonus is awarded exactly when the new streak is a positive multiple of 4,
\* 10 at 4 weeks, 15 at 8 and 25 at 12; an award adds exactly one
\* rewards_history row and raises the wallet balance and the total rewards by
\* the bonus, and without an award all three stay as they were.
C24_StreakBonus ==
  [][\A u \in Users :
       Incremented(u) =>
         LET before == StreakOf(u)
             wallet == WalletOf(u)
             total == TotalRewardsOf(u)
         IN  /\ user_settings'[u].savings_streak = before + 1
             /\ reply'.body.awarded = ((before + 1) % 4 = 0)
             /\ IF reply'.body.awarded
                THEN /\ reply'.body.amount = TierBonus(before + 1)
                     /\ Len(rewards_history') = Len(rewards_history) + 1
                     /\ user_settings'[u].locus_wallet_balance
                          = wallet + reply'.body.amount
                     /\ user_settings'[u].total_ai_rewards = total + reply'.body.amount
                ELSE /\ rewards_history' = rewards_history
                     /\ user_settings'[u].locus_wallet_balance = wallet
                     /\ user_settings'[u].total_ai_rewards = total]_vars

\* the rewards_history rows of challenge rewards
ChallengeRows ==
  {i \in 1..Len(rewards_history) : rewards_history[i].reward_type = "challenge_completion"}

\* the users whose reward is marked as claimed
Claimed ==
  {u \in DOMAIN user_challenge_progress : user_challenge_progress[u].reward_claimed = 1}

\* no user was paid the reward of the week more than once
PaidAtMostOnce ==
  /\ \A u \in Users :
       /\ WalletOf(u) <= ChallengeReward
       /\ TotalRewardsOf(u) <= ChallengeReward
  /\ Cardinality(ChallengeRows) <= Cardinality(Claimed)

\* every claimed reward was paid, once no claim is in flight
PaidWhenClaimed ==
  (\A h \in Handlers : claims[h].pc = "idle") =>
     /\ \A u \in Claimed :
          WalletOf(u) = ChallengeReward /\ TotalRewardsOf(u) = ChallengeReward
     /\ Cardinality(ChallengeRows) = Cardinality(Claimed)

\* the step is a claim by handler h that was refused for user u
Refused(h, u) ==
  /\ claims[h].pc = "idle"
  /\ claims' = claims
  /\ reply'.op = "claim"
  /\ reply'.userId = u
  /\ ~reply'.body.success

\* C30: whatever the interleaving of claimChallengeReward calls, a user is paid
\* the reward of the weekly challenge at most once: the wallet balance and the
\* total rewards are credited once and one challenge_completion row is
\* written; a claim on a challenge that is not completed or already claimed
\* returns success = false and changes neither the wallet nor the history.
C30_RewardPaidOnce ==
  [][/\ PaidAtMostOnce'
     /\ PaidWhenClaimed'
     /\ \A h \in Handlers : \A u \in Users :
          /\ (claims[h].pc = "idle" /\ claims'[h].pc = "claim_mark" /\ claims'[h].userId = u)
               => /\ u \in DOMAIN user_challenge_progress
                  /\ user_challenge_progress[u].status = "completed"
                  /\ user_challenge_progress[u].reward_claimed = 0
          /\ Refused(h, u)
               => /\ user_settings' = user_settings
                  /\ rewards_history' = rewards_history]_vars

====
